---- MODULE Spec2Model ----
(***************************************************************************)
(* Model of the tariff cost simulator (src/src/simulacion/costes.py) and of *)
(* the run that feeds it and saves its tables (src/main.py).               *)
(*                                                                         *)
(* Amounts (kWh, unit prices, fixed charges, contracted kW) are integers   *)
(* in a fixed unit; every quantity the code obtains by a division (the     *)
(* median, the percentages, the average unit cost) is an exact fraction in *)
(* lowest terms.  Floating-point rounding is outside the model.            *)
(***************************************************************************)
EXTENDS Integers, Sequences, FiniteSets, TLC

VARIABLES
    pc,                       \* position of the run
    error,                    \* "" or the exception that ended the run
    consumo_df,               \* consumption table: timestamp, kwh, es_fin_semana
    tarifas_df,               \* tariff catalog, in catalog order
    potencia_kw_valle,        \* contracted power, off-peak
    potencia_kw_punta_llano,  \* contracted power, peak/mid
    df,                       \* the pipeline's working copy of consumo_df, with its added columns
    kwh_anual,                \* annual pipeline: kWh by period and total_kwh
    resultados_anual,         \* annual pipeline: the list "resultados"
    ranking_anual,            \* value returned by calcular_costes_anuales_por_tarifa
    grupos,                   \* monthly pipeline: (anio, mes) keys of the groupby
    gi,                       \* monthly pipeline: index of the current group
    kwh_mes,                  \* monthly pipeline: kWh by period of the current group
    ti,                       \* monthly pipeline: tariffs already costed in the group
    coste_t,                  \* monthly pipeline: coste_energia, coste_potencia, total of the last tariff
    mejor,                    \* monthly pipeline: the dict "mejor" (None = <<>>)
    costes_mes,               \* monthly pipeline: the list "costes_mes"
    resultados_mes,           \* monthly pipeline: the list "resultados"
    mejor_mensual,            \* value returned by calcular_mejor_tarifa_por_mes
    consumo_csv,              \* the consumption file of ./data
    comercializadoras_csv,    \* the catalog file of ./data
    out                       \* the files of ./out written by the run

\* The files, which only main (cargar_datos, guardar_csv_es) reads and writes.
ficheros == <<consumo_csv, comercializadoras_csv, out>>
\* What the two simulation functions receive and never modify.
entrada == <<consumo_df, tarifas_df, potencia_kw_valle, potencia_kw_punta_llano, ficheros>>
estado_anual == <<kwh_anual, resultados_anual, ranking_anual>>
estado_mes == <<grupos, gi, kwh_mes, ti, coste_t, mejor, costes_mes, resultados_mes, mejor_mensual>>
vars == <<pc, error, entrada, df, estado_anual, estado_mes>>

(***************************************************************************)
(* Bounds and input domains                                                *)
(***************************************************************************)
MaxRegistros == 2
MaxTarifas == 2

None == <<>>
NaN == "NaN"

\* An exception that ends the run: its type and the function that raised it.
Excepcion(tipo, en) == [tipo |-> tipo, en |-> en]
SinError == Excepcion("", "")

Periodos == {"punta_LV", "llano_LV", "valle_LV", "valle_SD"}

\* Timestamps the consumption records are drawn from: a Friday at the end of
\* a month, the Saturday after it (the first day of the next month), and a
\* Friday of January of the following year.
Viernes31Ene == [anio |-> 2025, mes |-> 1, dia |-> 31]
Sabado1Feb == [anio |-> 2025, mes |-> 2, dia |-> 1]
Viernes2Ene26 == [anio |-> 2026, mes |-> 1, dia |-> 2]

\* <<timestamp, kwh>> of the records the consumption table is drawn from:
\* one per period with energy, and one hour without consumption.
Lecturas ==
    { <<Viernes31Ene @@ [hora |-> 3], 1>>,
      <<Viernes31Ene @@ [hora |-> 12], 2>>,
      <<Sabado1Feb @@ [hora |-> 15], 1>>,
      <<Sabado1Feb @@ [hora |-> 15], 0>>,
      <<Viernes2Ene26 @@ [hora |-> 23], 1>> }

\* Unit prices and monthly fixed charges the catalog's tariffs are drawn from.
Perfiles ==
    { [punta_LV |-> 0, llano_LV |-> 0, valle_LV |-> 0, valle_SD |-> 0,
       potencia_mes_valle |-> 0, potencia_mes_punta_llano |-> 0],
      [punta_LV |-> 2, llano_LV |-> 1, valle_LV |-> 1, valle_SD |-> 1,
       potencia_mes_valle |-> 1, potencia_mes_punta_llano |-> 0],
      [punta_LV |-> 1, llano_LV |-> 2, valle_LV |-> 1, valle_SD |-> 0,
       potencia_mes_valle |-> 0, potencia_mes_punta_llano |-> 1] }

PotenciasKW == { <<1, 2>> }

(***************************************************************************)
(* Exact fractions                                                         *)
(***************************************************************************)
Abs(x) == IF x < 0 THEN -x ELSE x

RECURSIVE GCD(_, _)
GCD(a, b) == IF b = 0 THEN a ELSE GCD(b, a % b)

\* n/d in lowest terms with a positive denominator (d # 0).
Rat(n, d) ==
    LET s == IF d < 0 THEN -1 ELSE 1
        g == GCD(Abs(n), Abs(d))
    IN  [num |-> (s * n) \div g, den |-> (s * d) \div g]

R(n) == Rat(n, 1)
RSub(a, b) == Rat(a.num * b.den - b.num * a.den, a.den * b.den)
RDiv(a, b) == Rat(a.num * b.den, a.den * b.num)
RMul(a, b) == Rat(a.num * b.num, a.den * b.den)

(***************************************************************************)
(* Calendar: pandas' dt.dayofweek (0 = Monday .. 6 = Sunday)               *)
(***************************************************************************)
EsBisiesto(a) == (a % 4 = 0 /\ a % 100 # 0) \/ a % 400 = 0

DiasDelMes(a, m) ==
    IF m = 2 THEN (IF EsBisiesto(a) THEN 29 ELSE 28)
    ELSE IF m \in {4, 6, 9, 11} THEN 30 ELSE 31

RECURSIVE DiasAntesDeMes(_, _)
DiasAntesDeMes(a, m) == IF m = 1 THEN 0 ELSE DiasAntesDeMes(a, m - 1) + DiasDelMes(a, m - 1)

RECURSIVE DiasAntesDeAnio(_)
DiasAntesDeAnio(a) ==
    IF a = 2025 THEN 0 ELSE DiasAntesDeAnio(a - 1) + (IF EsBisiesto(a - 1) THEN 366 ELSE 365)

\* 2025-01-01 was a Wednesday (dayofweek 2).
dayofweek(ts) == (2 + DiasAntesDeAnio(ts.anio) + DiasAntesDeMes(ts.anio, ts.mes) + (ts.dia - 1)) % 7

\* datadis_reader: out["es_fin_semana"] = out["timestamp"].dt.dayofweek >= 5
EsFinSemana(ts) == dayofweek(ts) >= 5

Registro(ts, k) == [timestamp |-> ts, kwh |-> k, es_fin_semana |-> EsFinSemana(ts)]

Registros == { Registro(l[1], l[2]) : l \in Lecturas }

SeqHasta(S, n) == UNION { [1..k -> S] : k \in 0..n }

\* A catalog row: the tariff's identity is (comercializadora, tarifa), unique
\* in the catalog; the tariff at position i is named i.
Tarifa(perfil, i) == [comercializadora |-> "C", tarifa |-> i] @@ perfil

Catalogos == { [i \in DOMAIN ps |-> Tarifa(ps[i], i)] : ps \in SeqHasta(Perfiles, MaxTarifas) }

(***************************************************************************)
(* costes.py: internal utilities                                           *)
(***************************************************************************)
\* Mutant: the weekday off-peak window ends one hour late.
_clasificar_periodo_mut(timestamp, es_fin_semana) ==
    [error |-> "",
     periodo |-> [i \in DOMAIN timestamp |->
        IF es_fin_semana[i] THEN "valle_SD"
        ELSE IF timestamp[i].hora <= 8 THEN "valle_LV"
        ELSE IF (timestamp[i].hora >= 10 /\ timestamp[i].hora < 14)
                \/ (timestamp[i].hora >= 18 /\ timestamp[i].hora < 22) THEN "punta_LV"
        ELSE "llano_LV"]]

\* The series of period labels, built by the code's successive masked
\* assignments; error "ValueError" when a label is left NaN.
_clasificar_periodo(timestamp, es_fin_semana) ==
    LET horas == [i \in DOMAIN timestamp |-> timestamp[i].hora]
        p0 == [i \in DOMAIN timestamp |-> NaN]
        p1 == [i \in DOMAIN p0 |-> IF es_fin_semana[i] THEN "valle_SD" ELSE p0[i]]
        mask_lv == [i \in DOMAIN p0 |-> ~es_fin_semana[i]]
        p2 == [i \in DOMAIN p0 |-> IF mask_lv[i] /\ horas[i] < 8 THEN "valle_LV" ELSE p1[i]]
        mask_punta == [i \in DOMAIN p0 |->
                          mask_lv[i] /\ ((horas[i] >= 10 /\ horas[i] < 14)
                                         \/ (horas[i] >= 18 /\ horas[i] < 22))]
        p3 == [i \in DOMAIN p0 |-> IF mask_punta[i] THEN "punta_LV" ELSE p2[i]]
        p4 == [i \in DOMAIN p0 |-> IF mask_lv[i] /\ p3[i] = NaN THEN "llano_LV" ELSE p3[i]]
    IN  [error |-> IF \E i \in DOMAIN p4 : p4[i] = NaN THEN "ValueError" ELSE "",
         periodo |-> p4]

\* Mutant: a zero total is reported as 100 %.
_safe_pct_mut(parte, total) ==
    IF total.num = 0 THEN R(100) ELSE RMul(RDiv(parte, total), R(100))

_safe_pct(parte, total) ==
    IF total.num = 0 THEN R(0) ELSE RMul(RDiv(parte, total), R(100))

\* Values of a list in ascending order.
RECURSIVE Insertar(_, _)
Insertar(x, s) ==
    IF s = <<>> THEN <<x>>
    ELSE IF x <= Head(s) THEN <<x>> \o s
    ELSE <<Head(s)>> \o Insertar(x, Tail(s))

RECURSIVE Ascendente(_)
Ascendente(s) == IF s = <<>> THEN <<>> ELSE Insertar(Head(s), Ascendente(Tail(s)))

\* pandas Series.median() of a non-empty list of numbers.
median(s) ==
    LET a == Ascendente(s)
        n == Len(s)
    IN  IF n % 2 = 1 THEN R(a[(n + 1) \div 2])
        ELSE Rat(a[n \div 2] + a[(n \div 2) + 1], 2)

\* pandas Series.max() of a non-empty list of numbers.
max(s) == CHOOSE x \in { s[i] : i \in DOMAIN s } : \A i \in DOMAIN s : s[i] <= x

\* _anadir_kpis_ahorro(df, "coste_total_anual", "anual")
_anadir_kpis_ahorro(tabla) ==
    LET col == [i \in DOMAIN tabla |-> tabla[i].coste_total_anual]
        mediana == median(col)
        peor == max(col)
    IN  [i \in DOMAIN tabla |->
            tabla[i] @@
            [ref_mediana_coste_total_anual |-> mediana,
             ref_peor_coste_total_anual |-> peor,
             ahorro_vs_mediana_eur_anual |-> RSub(mediana, R(tabla[i].coste_total_anual)),
             ahorro_vs_peor_eur_anual |-> peor - tabla[i].coste_total_anual,
             ahorro_vs_mediana_pct_anual |->
                 _safe_pct(RSub(mediana, R(tabla[i].coste_total_anual)), mediana),
             ahorro_vs_peor_pct_anual |->
                 _safe_pct(R(peor - tabla[i].coste_total_anual), R(peor))]]

\* _anadir_pct_energia_potencia(df, ..., sufijo = "anual")
_anadir_pct_energia_potencia_anual(tabla) ==
    [i \in DOMAIN tabla |->
        tabla[i] @@
        [pct_coste_energia_anual |->
             _safe_pct(R(tabla[i].coste_energia_anual), R(tabla[i].coste_total_anual)),
         pct_coste_potencia_anual |->
             _safe_pct(R(tabla[i].coste_potencia_anual), R(tabla[i].coste_total_anual))]]

\* _anadir_pct_energia_potencia(df, ..., sufijo = "mes")
_anadir_pct_energia_potencia_mes(tabla) ==
    [i \in DOMAIN tabla |->
        tabla[i] @@
        [pct_coste_energia_mes |->
             _safe_pct(R(tabla[i].coste_energia_mes), R(tabla[i].coste_total_mes)),
         pct_coste_potencia_mes |->
             _safe_pct(R(tabla[i].coste_potencia_mes), R(tabla[i].coste_total_mes))]]

\* _anadir_distribucion_consumo(df, ..., sufijo_cols = "")
_anadir_distribucion_consumo(tabla, k) ==
    [i \in DOMAIN tabla |->
        tabla[i] @@
        [kwh_punta_LV |-> k.kwh_punta,
         kwh_llano_LV |-> k.kwh_llano,
         kwh_valle_LV |-> k.kwh_valle_lv,
         kwh_valle_SD |-> k.kwh_valle_sd,
         pct_kwh_punta_LV |-> _safe_pct(R(k.kwh_punta), R(k.total_kwh)),
         pct_kwh_llano_LV |-> _safe_pct(R(k.kwh_llano), R(k.total_kwh)),
         pct_kwh_valle_LV |-> _safe_pct(R(k.kwh_valle_lv), R(k.total_kwh)),
         pct_kwh_valle_SD |-> _safe_pct(R(k.kwh_valle_sd), R(k.total_kwh))]]

(***************************************************************************)
(* Shared steps of the two pipelines                                       *)
(***************************************************************************)
Columna(tabla, c) == [i \in DOMAIN tabla |-> tabla[i][c]]

\* df["periodo"] = _clasificar_periodo(df["timestamp"], df["es_fin_semana"])
ConPeriodo(tabla, periodo) == [i \in DOMAIN tabla |-> tabla[i] @@ [periodo |-> periodo[i]]]

RECURSIVE SumaKwh(_)
SumaKwh(tabla) == IF tabla = <<>> THEN 0 ELSE Head(tabla).kwh + SumaKwh(Tail(tabla))

\* df.groupby("periodo")["kwh"].sum().to_dict(): only the periods present.
groupby_periodo_sum(tabla) ==
    [p \in { tabla[i].periodo : i \in DOMAIN tabla } |->
        SumaKwh(SelectSeq(tabla, LAMBDA r : r.periodo = p))]

\* dict.get(key, default)
get(d, key, default) == IF key \in DOMAIN d THEN d[key] ELSE default

\* Mutant: the weekend off-peak kWh are left out of the total.
KwhPorPeriodo_mut(tabla) ==
    LET m == groupby_periodo_sum(tabla)
    IN  [kwh_punta |-> get(m, "punta_LV", 0), kwh_llano |-> get(m, "llano_LV", 0),
         kwh_valle_lv |-> get(m, "valle_LV", 0), kwh_valle_sd |-> get(m, "valle_SD", 0),
         total_kwh |-> get(m, "punta_LV", 0) + get(m, "llano_LV", 0) + get(m, "valle_LV", 0)]

\* The four kwh_* locals and the window total (costes.py 159-166, 244-250, 324-330).
KwhPorPeriodo(tabla) ==
    LET m == groupby_periodo_sum(tabla)
        kwh_punta == get(m, "punta_LV", 0)
        kwh_llano == get(m, "llano_LV", 0)
        kwh_valle_lv == get(m, "valle_LV", 0)
        kwh_valle_sd == get(m, "valle_SD", 0)
    IN  [kwh_punta |-> kwh_punta, kwh_llano |-> kwh_llano,
         kwh_valle_lv |-> kwh_valle_lv, kwh_valle_sd |-> kwh_valle_sd,
         total_kwh |-> kwh_punta + kwh_llano + kwh_valle_lv + kwh_valle_sd]

\* Mutant: the weekend off-peak kWh are billed at the weekday off-peak price.
coste_energia_mut(k, t) ==
    k.kwh_punta * t.punta_LV + k.kwh_llano * t.llano_LV
    + k.kwh_valle_lv * t.valle_LV + k.kwh_valle_sd * t.valle_LV

\* Variable energy cost of tariff t (costes.py 172-177, 256-261).
coste_energia(k, t) ==
    k.kwh_punta * t.punta_LV + k.kwh_llano * t.llano_LV
    + k.kwh_valle_lv * t.valle_LV + k.kwh_valle_sd * t.valle_SD

(***************************************************************************)
(* calcular_costes_anuales_por_tarifa                                      *)
(***************************************************************************)
\* Mutant: the fixed charge is billed once instead of twelve times.
coste_potencia_anual_mut(t, kw_valle, kw_punta_llano) ==
    t.potencia_mes_valle * kw_valle + t.potencia_mes_punta_llano * kw_punta_llano

\* Fixed power cost of the annual window (costes.py 180-183).
coste_potencia_anual(t, kw_valle, kw_punta_llano) ==
    t.potencia_mes_valle * kw_valle * 12 + t.potencia_mes_punta_llano * kw_punta_llano * 12

\* The dict appended to "resultados" for tariff t (costes.py 172-196).
FilaAnual(t, k, kw_valle, kw_punta_llano) ==
    LET ce == coste_energia(k, t)
        cp == coste_potencia_anual(t, kw_valle, kw_punta_llano)
        total == ce + cp
        coste_medio == IF k.total_kwh > 0 THEN Rat(total, k.total_kwh) ELSE R(0)
    IN  [comercializadora |-> t.comercializadora, tarifa |-> t.tarifa,
         kwh_anuales |-> k.total_kwh, coste_energia_anual |-> ce,
         coste_potencia_anual |-> cp, coste_total_anual |-> total,
         coste_medio_eur_kwh |-> coste_medio]

Reordenaciones(rows) ==
    { [i \in DOMAIN rows |-> rows[p[i]]] : p \in Permutations(DOMAIN rows) }

\* DataFrame.sort_values("coste_total_anual") with the default kind
\* ("quicksort", which is not stable): every ordering of the rows that is
\* non-decreasing in the key is a possible outcome.
sort_values_coste_total_anual(rows) ==
    { s \in Reordenaciones(rows) :
        \A i \in 1..(Len(s) - 1) : s[i].coste_total_anual <= s[i + 1].coste_total_anual }

AnualInicio ==
    /\ pc = "anual"
    /\ LET c == _clasificar_periodo(Columna(consumo_df, "timestamp"),
                                    Columna(consumo_df, "es_fin_semana"))
       IN  IF c.error # ""
           THEN /\ pc' = "error"
                /\ error' = Excepcion(c.error, "calcular_costes_anuales_por_tarifa")
                /\ UNCHANGED <<df, estado_anual>>
           ELSE /\ df' = ConPeriodo(consumo_df, c.periodo)
                /\ kwh_anual' = KwhPorPeriodo(df')
                /\ resultados_anual' = <<>>
                /\ pc' = "anual_tarifas"
                /\ UNCHANGED <<error, ranking_anual>>
    /\ UNCHANGED <<entrada, estado_mes>>

\* One iteration of "for _, t in tarifas_df.iterrows()".
AnualTarifa ==
    /\ pc = "anual_tarifas"
    /\ Len(resultados_anual) < Len(tarifas_df)
    /\ LET t == tarifas_df[Len(resultados_anual) + 1]
       IN  resultados_anual' =
               Append(resultados_anual,
                      FilaAnual(t, kwh_anual, potencia_kw_valle, potencia_kw_punta_llano))
    /\ UNCHANGED <<pc, error, entrada, df, kwh_anual, ranking_anual, estado_mes>>

\* After the loop: sort, KPIs, return.  pd.DataFrame([]) has no column
\* "coste_total_anual", so sorting an empty result raises KeyError.
AnualFin ==
    /\ pc = "anual_tarifas"
    /\ Len(resultados_anual) = Len(tarifas_df)
    /\ IF resultados_anual = <<>>
       THEN /\ pc' = "error"
            /\ error' = Excepcion("KeyError", "calcular_costes_anuales_por_tarifa")
            /\ UNCHANGED ranking_anual
       ELSE /\ \E res \in sort_values_coste_total_anual(resultados_anual) :
                   ranking_anual' =
                       _anadir_distribucion_consumo(
                           _anadir_pct_energia_potencia_anual(_anadir_kpis_ahorro(res)),
                           kwh_anual)
            /\ pc' = "mensual"
            /\ UNCHANGED error
    /\ UNCHANGED <<entrada, df, kwh_anual, resultados_anual, estado_mes>>

(***************************************************************************)
(* calcular_mejor_tarifa_por_mes                                           *)
(***************************************************************************)
\* df["anio"], df["mes"] from the timestamp.
ConAnioMes(tabla) ==
    [i \in DOMAIN tabla |->
        tabla[i] @@ [anio |-> tabla[i].timestamp.anio, mes |-> tabla[i].timestamp.mes]]

ClaveMenor(a, b) == a[1] < b[1] \/ (a[1] = b[1] /\ a[2] < b[2])

\* Keys of df.groupby(["anio", "mes"]), which iterates them in ascending order.
groupby_anio_mes(tabla) ==
    LET claves == { <<tabla[i].anio, tabla[i].mes>> : i \in DOMAIN tabla }
        n == Cardinality(claves)
    IN  CHOOSE s \in [1..n -> claves] : \A i, j \in 1..n : i < j => ClaveMenor(s[i], s[j])

\* Mutant: the rows of a month of any year are taken together.
FilasDelMes_mut(tabla, anio, mes) == SelectSeq(tabla, LAMBDA r : r.mes = mes)

\* The rows of one (anio, mes): the group g of the groupby, and
\* df[(df["anio"] == anio) & (df["mes"] == mes)] of the second pass.
FilasDelMes(tabla, anio, mes) == SelectSeq(tabla, LAMBDA r : r.anio = anio /\ r.mes = mes)

\* Mutant: each month is billed the fixed charge of a whole year.
coste_potencia_mes_mut(t, kw_valle, kw_punta_llano) ==
    t.potencia_mes_valle * kw_valle * 12 + t.potencia_mes_punta_llano * kw_punta_llano * 12

\* Fixed power cost of one month (costes.py 264-267).
coste_potencia_mes(t, kw_valle, kw_punta_llano) ==
    t.potencia_mes_valle * kw_valle + t.potencia_mes_punta_llano * kw_punta_llano

\* Mutant: a later tariff of equal cost replaces the current best.
EsMejor_mut(m, total) == Len(m) = 0 \/ total <= m[1].coste_total_mes

\* "mejor is None or total < mejor["coste_total_mes"]"
EsMejor(m, total) == Len(m) = 0 \/ total < m[1].coste_total_mes

\* Mutant: the costs of the previous months are kept in the list.
costes_mes_nuevo_mut(anteriores) == anteriores

\* "costes_mes = []" at the start of each month.
costes_mes_nuevo(anteriores) == <<>>

\* The fields of mejor.update(...) (costes.py 285-300).
ReferenciasMes(m, costes) ==
    LET ref_mediana == median(costes)
        ref_peor == max(costes)
        ahorro_vs_mediana == RSub(ref_mediana, R(m.coste_total_mes))
        ahorro_vs_peor == ref_peor - m.coste_total_mes
    IN  [ref_mediana_coste_total_mes |-> ref_mediana,
         ref_peor_coste_total_mes |-> ref_peor,
         ahorro_vs_mediana_eur_mes |-> ahorro_vs_mediana,
         ahorro_vs_mediana_pct_mes |-> _safe_pct(ahorro_vs_mediana, ref_mediana),
         ahorro_vs_peor_eur_mes |-> ahorro_vs_peor,
         ahorro_vs_peor_pct_mes |-> _safe_pct(R(ahorro_vs_peor), R(ref_peor))]

\* DataFrame.sort_values(["anio", "mes"]): orderings non-decreasing in (anio, mes).
sort_values_anio_mes(rows) ==
    { s \in Reordenaciones(rows) :
        \A i \in 1..(Len(s) - 1) : ~ClaveMenor(<<s[i + 1].anio, s[i + 1].mes>>, <<s[i].anio, s[i].mes>>) }

\* The dict "extra" of the second pass over the months (costes.py 320-342).
Extra(tabla, anio, mes) ==
    LET k == KwhPorPeriodo(FilasDelMes(tabla, anio, mes))
    IN  [kwh_punta_LV_mes |-> k.kwh_punta,
         kwh_llano_LV_mes |-> k.kwh_llano,
         kwh_valle_LV_mes |-> k.kwh_valle_lv,
         kwh_valle_SD_mes |-> k.kwh_valle_sd,
         pct_kwh_punta_LV_mes |-> _safe_pct(R(k.kwh_punta), R(k.total_kwh)),
         pct_kwh_llano_LV_mes |-> _safe_pct(R(k.kwh_llano), R(k.total_kwh)),
         pct_kwh_valle_LV_mes |-> _safe_pct(R(k.kwh_valle_lv), R(k.total_kwh)),
         pct_kwh_valle_SD_mes |-> _safe_pct(R(k.kwh_valle_sd), R(k.total_kwh))]

MensualInicio ==
    /\ pc = "mensual"
    /\ LET c == _clasificar_periodo(Columna(consumo_df, "timestamp"),
                                    Columna(consumo_df, "es_fin_semana"))
       IN  IF c.error # ""
           THEN /\ pc' = "error"
                /\ error' = Excepcion(c.error, "calcular_mejor_tarifa_por_mes")
                /\ UNCHANGED <<df, grupos, resultados_mes>>
           ELSE /\ df' = ConAnioMes(ConPeriodo(consumo_df, c.periodo))
                /\ grupos' = groupby_anio_mes(df')
                /\ resultados_mes' = <<>>
                /\ pc' = "meses"
                /\ UNCHANGED error
    /\ gi' = 0
    /\ UNCHANGED <<entrada, estado_anual, kwh_mes, ti, coste_t, mejor, costes_mes, mejor_mensual>>

\* Start of one iteration of "for (anio, mes), g in df.groupby(["anio", "mes"])".
MesInicio ==
    /\ pc = "meses"
    /\ gi < Len(grupos)
    /\ gi' = gi + 1
    /\ kwh_mes' = KwhPorPeriodo(FilasDelMes(df, grupos[gi'][1], grupos[gi'][2]))
    /\ mejor' = None
    /\ costes_mes' = costes_mes_nuevo(costes_mes)
    /\ ti' = 0
    /\ pc' = "mes_tarifas"
    /\ UNCHANGED <<error, entrada, df, estado_anual, grupos, coste_t, resultados_mes, mejor_mensual>>

\* One iteration of the inner "for _, t in tarifas_df.iterrows()".
MesTarifa ==
    /\ pc = "mes_tarifas"
    /\ ti < Len(tarifas_df)
    /\ LET t == tarifas_df[ti + 1]
           ce == coste_energia(kwh_mes, t)
           cp == coste_potencia_mes(t, potencia_kw_valle, potencia_kw_punta_llano)
           total == ce + cp
       IN  /\ coste_t' = [coste_energia |-> ce, coste_potencia |-> cp, total |-> total]
           /\ costes_mes' = Append(costes_mes, total)
           /\ mejor' = IF EsMejor(mejor, total)
                       THEN << [anio |-> grupos[gi][1], mes |-> grupos[gi][2],
                                comercializadora |-> t.comercializadora,
                                tarifa |-> t.tarifa,
                                kwh_mes |-> kwh_mes.total_kwh,
                                coste_energia_mes |-> ce,
                                coste_potencia_mes |-> cp,
                                coste_total_mes |-> total] >>
                       ELSE mejor
    /\ ti' = ti + 1
    /\ UNCHANGED <<pc, error, entrada, df, estado_anual, grupos, gi, kwh_mes, resultados_mes, mejor_mensual>>

\* After the inner loop: references of the month, KPIs of the winner, append.
\* With an empty catalog "mejor" is still None and mejor["coste_total_mes"]
\* raises TypeError.
MesFin ==
    /\ pc = "mes_tarifas"
    /\ ti = Len(tarifas_df)
    /\ IF mejor = None
       THEN /\ pc' = "error"
            /\ error' = Excepcion("TypeError", "calcular_mejor_tarifa_por_mes")
            /\ UNCHANGED <<mejor, resultados_mes>>
       ELSE /\ mejor' = << mejor[1] @@ ReferenciasMes(mejor[1], costes_mes) >>
            /\ resultados_mes' = Append(resultados_mes, mejor'[1])
            /\ pc' = "meses"
            /\ UNCHANGED error
    /\ UNCHANGED <<entrada, df, estado_anual, grupos, gi, kwh_mes, ti, coste_t, costes_mes, mejor_mensual>>

\* After the loop over the months: sort, cost shares, second pass, return.
\* pd.DataFrame([]) has no columns "anio", "mes": with no month, KeyError.
MensualFin ==
    /\ pc = "meses"
    /\ gi = Len(grupos)
    /\ IF resultados_mes = <<>>
       THEN /\ pc' = "error"
            /\ error' = Excepcion("KeyError", "calcular_mejor_tarifa_por_mes")
            /\ UNCHANGED mejor_mensual
       ELSE /\ \E s \in sort_values_anio_mes(resultados_mes) :
                   LET res == _anadir_pct_energia_potencia_mes(s)
                   IN  mejor_mensual' =
                           [i \in DOMAIN res |-> res[i] @@ Extra(df, res[i].anio, res[i].mes)]
            /\ pc' = "fin"
            /\ UNCHANGED error
    /\ UNCHANGED <<entrada, df, estado_anual, grupos, gi, kwh_mes, ti, coste_t, mejor, costes_mes, resultados_mes>>

(***************************************************************************)
(* Specification: calcular_costes_anuales_por_tarifa, then                 *)
(* calcular_mejor_tarifa_por_mes, on the same tables (the order of main)   *)
(***************************************************************************)
\* A file that is not there, and ./out before anything is written.
NoExiste == [existe |-> FALSE, filas |-> <<>>]
SinSalida == <<>>

SinFicheros ==
    /\ consumo_csv = NoExiste
    /\ comercializadoras_csv = NoExiste
    /\ out = SinSalida

SinEmpezar ==
    /\ error = SinError
    /\ df = <<>>
    /\ kwh_anual = KwhPorPeriodo(<<>>)
    /\ resultados_anual = <<>>
    /\ ranking_anual = <<>>
    /\ grupos = <<>>
    /\ gi = 0
    /\ kwh_mes = KwhPorPeriodo(<<>>)
    /\ ti = 0
    /\ coste_t = [coste_energia |-> 0, coste_potencia |-> 0, total |-> 0]
    /\ mejor = None
    /\ costes_mes = <<>>
    /\ resultados_mes = <<>>
    /\ mejor_mensual = <<>>

Init ==
    /\ pc = "anual"
    /\ consumo_df \in SeqHasta(Registros, MaxRegistros)
    /\ tarifas_df \in Catalogos
    /\ \E kw \in PotenciasKW : potencia_kw_valle = kw[1] /\ potencia_kw_punta_llano = kw[2]
    /\ SinFicheros
    /\ SinEmpezar

Next ==
    \/ AnualInicio
    \/ AnualTarifa
    \/ AnualFin
    \/ MensualInicio
    \/ MesInicio
    \/ MesTarifa
    \/ MesFin
    \/ MensualFin

Spec == Init /\ [][Next]_vars

(***************************************************************************)
(* Specification of the period classifier alone: a batch of records of any *)
(* hour of a Friday and of a Saturday                                      *)
(***************************************************************************)
InstantesClasificar ==
    { d @@ [hora |-> h] : d \in {Viernes31Ene, Sabado1Feb}, h \in 0..23 }

InitClasificar ==
    /\ pc = "clasificar"
    /\ consumo_df \in SeqHasta({ Registro(ts, 1) : ts \in InstantesClasificar }, MaxRegistros)
    /\ tarifas_df = <<>>
    /\ potencia_kw_valle = 0
    /\ potencia_kw_punta_llano = 0
    /\ SinFicheros
    /\ SinEmpezar

\* df["periodo"] = _clasificar_periodo(df["timestamp"], df["es_fin_semana"])
Clasificar ==
    /\ pc = "clasificar"
    /\ LET c == _clasificar_periodo(Columna(consumo_df, "timestamp"),
                                    Columna(consumo_df, "es_fin_semana"))
       IN  IF c.error # ""
           THEN pc' = "error" /\ error' = Excepcion(c.error, "_clasificar_periodo") /\ UNCHANGED df
           ELSE pc' = "clasificado" /\ df' = ConPeriodo(consumo_df, c.periodo) /\ UNCHANGED error
    /\ UNCHANGED <<entrada, estado_anual, estado_mes>>

NextClasificar == Clasificar

SpecClasificar == InitClasificar /\ [][NextClasificar]_vars

(***************************************************************************)
(* datadis_reader.py: read_consumo_datadis_csv.  A source row is the date  *)
(* its text denotes, the fields of its time text (<<HH, MM>> or            *)
(* <<HH, MM, SS>>) and its kWh; every reading is on the hour.              *)
(***************************************************************************)
Viernes31EneCSV == [anio |-> 2025, mes |-> 1, dia |-> 31]
Domingo2FebCSV == [anio |-> 2025, mes |-> 2, dia |-> 2]
Miercoles31DicCSV == [anio |-> 2025, mes |-> 12, dia |-> 31]

\* Rows the consumption file is drawn from: 24:00 of a Friday that ends a
\* month, noon of that Friday, 24:00:00 of a Sunday, 24:00 of the last day of
\* a year, and a row whose time cannot be parsed.
FilasConsumoCSV ==
    { [fecha |-> Viernes31EneCSV, hora |-> <<24, 0>>, kwh |-> 1],
      [fecha |-> Viernes31EneCSV, hora |-> <<12, 0>>, kwh |-> 2],
      [fecha |-> Domingo2FebCSV, hora |-> <<24, 0, 0>>, kwh |-> 1],
      [fecha |-> Miercoles31DicCSV, hora |-> <<24, 0>>, kwh |-> 1],
      [fecha |-> Viernes31EneCSV, hora |-> <<25, 0>>, kwh |-> 1] }

\* _normalizar_hora_a_hhmmss: HH:MM gets ":00".
_normalizar_hora_a_hhmmss(h) == IF Len(h) = 2 THEN Append(h, 0) ELSE h

\* mask_24 = hora_raw.isin(["24:00", "24:00:00"]) | hora_norm.isin(["24:00:00"])
mask_24(hora_raw) ==
    hora_raw \in { <<24, 0>>, <<24, 0, 0>> } \/ _normalizar_hora_a_hhmmss(hora_raw) = <<24, 0, 0>>

\* hora_norm.loc[mask_24] = "00:00:00"
hora_norm(hora_raw) ==
    IF mask_24(hora_raw) THEN <<0, 0, 0>> ELSE _normalizar_hora_a_hhmmss(hora_raw)

\* pd.to_datetime(..., errors="raise") rejects a time that is not a time of day.
to_datetime_error(fila) ==
    LET h == hora_norm(fila.hora)
    IN  ~(h[1] \in 0..23 /\ h[2] \in 0..59 /\ h[3] \in 0..59)

to_datetime(fila) == fila.fecha @@ [hora |-> hora_norm(fila.hora)[1]]

\* Mutant: the day is not added, 24:00 becomes 00:00 of the same date.
Timedelta_days_1_mut(ts) == ts

\* ts + pd.Timedelta(days=1)
Timedelta_days_1(ts) ==
    IF ts.dia < DiasDelMes(ts.anio, ts.mes) THEN [ts EXCEPT !.dia = ts.dia + 1]
    ELSE IF ts.mes < 12 THEN [ts EXCEPT !.dia = 1, !.mes = ts.mes + 1]
    ELSE [ts EXCEPT !.dia = 1, !.mes = 1, !.anio = ts.anio + 1]

\* The timestamp of a source row (datadis_reader.py 116-134).
Timestamp(fila) ==
    IF mask_24(fila.hora) THEN Timedelta_days_1(to_datetime(fila)) ELSE to_datetime(fila)

\* Hours elapsed since 2025-01-01 00:00: the order of the timestamps.
Instante(ts) ==
    (DiasAntesDeAnio(ts.anio) + DiasAntesDeMes(ts.anio, ts.mes) + (ts.dia - 1)) * 24 + ts.hora

\* DataFrame.sort_values("timestamp"): orderings non-decreasing in timestamp.
sort_values_timestamp(rows) ==
    { s \in Reordenaciones(rows) :
        \A i \in 1..(Len(s) - 1) : Instante(s[i].timestamp) <= Instante(s[i + 1].timestamp) }

\* The table "out" before it is sorted: timestamp, kwh, es_fin_semana.
TablaConsumo(filas) == [i \in DOMAIN filas |-> Registro(Timestamp(filas[i]), filas[i].kwh)]

(***************************************************************************)
(* comercializadoras_reader.py: read_comercializadoras_csv                 *)
(***************************************************************************)
\* Rows the catalog file is drawn from: the tariffs with a fixed charge,
\* under two names, so that a file can repeat a (comercializadora, tarifa).
NombresCSV == {1, 2}
FilasCatalogoCSV ==
    { Tarifa(p, n) : p \in { q \in Perfiles : q.potencia_mes_valle + q.potencia_mes_punta_llano > 0 },
                     n \in NombresCSV }

\* df.drop_duplicates(subset=["comercializadora", "tarifa"]): the first row
\* of each (comercializadora, tarifa) is kept.
RECURSIVE drop_duplicates(_)
drop_duplicates(filas) ==
    IF filas = <<>> THEN <<>>
    ELSE LET antes == SubSeq(filas, 1, Len(filas) - 1)
             u == filas[Len(filas)]
         IN  IF \E i \in DOMAIN antes :
                    antes[i].comercializadora = u.comercializadora /\ antes[i].tarifa = u.tarifa
             THEN drop_duplicates(antes)
             ELSE Append(drop_duplicates(antes), u)

(***************************************************************************)
(* main.py: guardar_csv_es                                                 *)
(***************************************************************************)
\* Series.round(4) of a fraction: the nearest multiple of 1/10000, ties to
\* the even one.
round_4(x) ==
    LET n == x.num * 10000
        q == n \div x.den
        resto == n - q * x.den
        m == IF 2 * resto < x.den THEN q
             ELSE IF 2 * resto > x.den THEN q + 1
             ELSE IF q % 2 = 0 THEN q ELSE q + 1
    IN  Rat(m, 10000)

\* The columns of the two tables that hold fractions; the other numeric
\* columns hold whole amounts, which round(4) leaves as they are.
ColumnasFraccion ==
    { "coste_medio_eur_kwh",
      "ref_mediana_coste_total_anual", "ahorro_vs_mediana_eur_anual",
      "ahorro_vs_mediana_pct_anual", "ahorro_vs_peor_pct_anual",
      "pct_coste_energia_anual", "pct_coste_potencia_anual",
      "pct_kwh_punta_LV", "pct_kwh_llano_LV", "pct_kwh_valle_LV", "pct_kwh_valle_SD",
      "ref_mediana_coste_total_mes", "ahorro_vs_mediana_eur_mes",
      "ahorro_vs_mediana_pct_mes", "ahorro_vs_peor_pct_mes",
      "pct_coste_energia_mes", "pct_coste_potencia_mes",
      "pct_kwh_punta_LV_mes", "pct_kwh_llano_LV_mes",
      "pct_kwh_valle_LV_mes", "pct_kwh_valle_SD_mes" }

\* df_out of guardar_csv_es: the copy with its numeric columns rounded.
df_out(tabla) ==
    [i \in DOMAIN tabla |->
        [c \in DOMAIN tabla[i] |->
            IF c \in ColumnasFraccion THEN round_4(tabla[i][c]) ELSE tabla[i][c]]]

\* What a call guardar_csv_es(tabla, path) can leave at path: the whole
\* table, or, when to_csv fails after opening the file, its first k rows.
Escrito(tabla) == [completo |-> TRUE, filas |-> df_out(tabla)]
Truncado(tabla, k) == [completo |-> FALSE, filas |-> SubSeq(df_out(tabla), 1, k)]

FICHERO_ANUAL == "ranking_tarifas_anual.csv"
FICHERO_MENSUAL == "ranking_tarifas_mensual.csv"

\* The outcomes of a call guardar_csv_es(tabla, path): the file is written;
\* or mkdir / to_csv raises OSError before the file is opened; or to_csv
\* raises it after some rows.  "escrito" is what the call leaves at path,
\* if anything.
guardar_csv_es(tabla) ==
    { [error |-> "", escrito |-> <<Escrito(tabla)>>],
      [error |-> "OSError", escrito |-> <<>>] }
    \cup { [error |-> "OSError", escrito |-> <<Truncado(tabla, k)>>] : k \in 0..(Len(tabla) - 1) }

\* ./out after a call that left r.escrito at path "nombre".
ConFichero(salida, nombre, r) ==
    IF r.escrito = <<>> THEN salida ELSE (nombre :> r.escrito[1]) @@ salida

(***************************************************************************)
(* main.py: main                                                           *)
(***************************************************************************)
\* potencia_kw_valle = 3.45, potencia_kw_punta_llano = 4.60, in units of 1.15 kW.
POTENCIA_KW_VALLE == 3
POTENCIA_KW_PUNTA_LLANO == 4

\* datos = cargar_datos(...): read_consumo_datadis_csv, then
\* read_comercializadoras_csv.
CargarDatos ==
    /\ pc = "cargar"
    /\ IF ~consumo_csv.existe
       THEN /\ pc' = "error"
            /\ error' = Excepcion("FileNotFoundError", "read_consumo_datadis_csv")
            /\ UNCHANGED <<consumo_df, tarifas_df>>
       ELSE IF \E i \in DOMAIN consumo_csv.filas : to_datetime_error(consumo_csv.filas[i])
       THEN /\ pc' = "error"
            /\ error' = Excepcion("ValueError", "read_consumo_datadis_csv")
            /\ UNCHANGED <<consumo_df, tarifas_df>>
       ELSE IF ~comercializadoras_csv.existe
       THEN /\ pc' = "error"
            /\ error' = Excepcion("FileNotFoundError", "read_comercializadoras_csv")
            /\ UNCHANGED <<consumo_df, tarifas_df>>
       ELSE /\ consumo_df' \in sort_values_timestamp(TablaConsumo(consumo_csv.filas))
            /\ tarifas_df' = drop_duplicates(comercializadoras_csv.filas)
            /\ pc' = "anual"
            /\ UNCHANGED error
    /\ UNCHANGED <<potencia_kw_valle, potencia_kw_punta_llano, ficheros, df, estado_anual, estado_mes>>

\* guardar_csv_es(ranking_anual, out_dir / "ranking_tarifas_anual.csv")
GuardarAnual ==
    /\ pc = "fin"
    /\ \E r \in guardar_csv_es(ranking_anual) :
          /\ out' = ConFichero(out, FICHERO_ANUAL, r)
          /\ IF r.error = ""
             THEN pc' = "guardar_mensual" /\ UNCHANGED error
             ELSE pc' = "error" /\ error' = Excepcion(r.error, "guardar_csv_es")
    /\ UNCHANGED <<consumo_df, tarifas_df, potencia_kw_valle, potencia_kw_punta_llano,
                   consumo_csv, comercializadoras_csv, df, estado_anual, estado_mes>>

\* guardar_csv_es(mejor_mensual, out_dir / "ranking_tarifas_mensual.csv")
GuardarMensual ==
    /\ pc = "guardar_mensual"
    /\ \E r \in guardar_csv_es(mejor_mensual) :
          /\ out' = ConFichero(out, FICHERO_MENSUAL, r)
          /\ IF r.error = ""
             THEN pc' = "terminado" /\ UNCHANGED error
             ELSE pc' = "error" /\ error' = Excepcion(r.error, "guardar_csv_es")
    /\ UNCHANGED <<consumo_df, tarifas_df, potencia_kw_valle, potencia_kw_punta_llano,
                   consumo_csv, comercializadoras_csv, df, estado_anual, estado_mes>>

Fichero(filas) == [existe |-> TRUE, filas |-> filas]

InitMain ==
    /\ pc = "cargar"
    /\ consumo_csv \in {NoExiste} \cup { Fichero(f) : f \in SeqHasta(FilasConsumoCSV, MaxRegistros) }
    /\ comercializadoras_csv \in
           {NoExiste} \cup { Fichero(f) : f \in SeqHasta(FilasCatalogoCSV, MaxTarifas) }
    /\ out = SinSalida
    /\ consumo_df = <<>>
    /\ tarifas_df = <<>>
    /\ potencia_kw_valle = POTENCIA_KW_VALLE
    /\ potencia_kw_punta_llano = POTENCIA_KW_PUNTA_LLANO
    /\ SinEmpezar

NextMain ==
    \/ CargarDatos
    \/ AnualInicio
    \/ AnualTarifa
    \/ AnualFin
    \/ MensualInicio
    \/ MesInicio
    \/ MesTarifa
    \/ MesFin
    \/ MensualFin
    \/ GuardarAnual
    \/ GuardarMensual

SpecMain == InitMain /\ [][NextMain]_vars

(***************************************************************************)
(* Reference definitions the properties are stated with: the windows, the  *)
(* kWh of a window in a period and the costs, taken from the input tables  *)
(***************************************************************************)
RECURSIVE SumaConj(_, _)
SumaConj(f, S) ==
    IF S = {} THEN 0
    ELSE LET x == CHOOSE y \in S : TRUE IN f[x] + SumaConj(f, S \ {x})

\* The priority rule of the four periods.
PeriodoSegunRegla(hora, fin_semana) ==
    IF fin_semana THEN "valle_SD"
    ELSE IF hora \in 0..7 THEN "valle_LV"
    ELSE IF hora \in (10..13) \cup (18..21) THEN "punta_LV"
    ELSE "llano_LV"

\* A window is "anual" (every record) or a key <<anio, mes>>.
Anual == <<0, 0>>
EnVentana(r, v) == v = Anual \/ (r.timestamp.anio = v[1] /\ r.timestamp.mes = v[2])

Meses == { <<consumo_df[i].timestamp.anio, consumo_df[i].timestamp.mes>> : i \in DOMAIN consumo_df }

KwhVentana(v, p) ==
    SumaConj([i \in DOMAIN consumo_df |-> consumo_df[i].kwh],
             { i \in DOMAIN consumo_df :
                 /\ EnVentana(consumo_df[i], v)
                 /\ PeriodoSegunRegla(consumo_df[i].timestamp.hora, consumo_df[i].es_fin_semana) = p })

KwhTotalVentana(v) == SumaConj([p \in Periodos |-> KwhVentana(v, p)], Periodos)

EnergiaVentana(t, v) == SumaConj([p \in Periodos |-> KwhVentana(v, p) * t[p]], Periodos)

PotenciaPorMultiplicador(t, multiplicador) ==
    (t.potencia_mes_valle * potencia_kw_valle
     + t.potencia_mes_punta_llano * potencia_kw_punta_llano) * multiplicador

Multiplicador(v) == IF v = Anual THEN 12 ELSE 1

TotalVentana(t, v) == EnergiaVentana(t, v) + PotenciaPorMultiplicador(t, Multiplicador(v))

AnualDevuelto == pc \in {"mensual", "meses", "mes_tarifas", "fin"} \/ (pc = "error" /\ error.en = "calcular_mejor_tarifa_por_mes")
MensualDevuelto == pc = "fin"

(***************************************************************************)
(* C1                                                                      *)
(***************************************************************************)
\* C1: every record of a batch, of any hour 0..23 and either weekend flag,
\* gets exactly one of the four periods, the one of the priority rule
\* (weekend -> valle_SD; else [0,8) -> valle_LV; else [10,14) or [18,22) ->
\* punta_LV; else llano_LV, i.e. [8,10), [14,18), [22,24)); no record is left
\* unclassified (the classification error is never raised) and the labels are
\* parallel to the input, same index and same order.
C1_ClasificacionExhaustiva ==
    /\ pc # "error"
    /\ pc = "clasificado" =>
        /\ DOMAIN df = DOMAIN consumo_df
        /\ \A i \in DOMAIN df :
            /\ df[i].timestamp = consumo_df[i].timestamp
            /\ df[i].es_fin_semana = consumo_df[i].es_fin_semana
            /\ df[i].periodo \in Periodos
            /\ df[i].periodo = PeriodoSegunRegla(df[i].timestamp.hora, df[i].es_fin_semana)
            /\ (df[i].periodo = "llano_LV") =
                   (~df[i].es_fin_semana
                    /\ df[i].timestamp.hora \in (8..9) \cup (14..17) \cup (22..23))

\* A batch of two records was classified: hour 8 of a weekday (llano_LV,
\* the first hour after the off-peak window) and hour 12 of a weekend day.
C1_Witness ==
    /\ pc = "clasificado"
    /\ Len(df) = 2
    /\ df[1].timestamp.hora = 8 /\ ~df[1].es_fin_semana /\ df[1].periodo = "llano_LV"
    /\ df[2].timestamp.hora = 12 /\ df[2].es_fin_semana /\ df[2].periodo = "valle_SD"

(***************************************************************************)
(* C2                                                                      *)
(***************************************************************************)
\* C2: for every tariff and every window, the energy cost is the sum over
\* the four periods of the window's kWh in the period (0 when the period has
\* no record) times the tariff's unit price of the period, and the power cost
\* is (potencia_mes_valle * potencia_kw_valle + potencia_mes_punta_llano *
\* potencia_kw_punta_llano) times 12 in the annual pipeline and times 1 in the
\* monthly one, however many months the consumption covers.
C2_CostesPorVentana ==
    /\ \A i \in DOMAIN resultados_anual :
        /\ resultados_anual[i].coste_energia_anual = EnergiaVentana(tarifas_df[i], Anual)
        /\ resultados_anual[i].coste_potencia_anual = PotenciaPorMultiplicador(tarifas_df[i], 12)
    /\ (pc = "mes_tarifas" /\ ti > 0) =>
        /\ coste_t.coste_energia = EnergiaVentana(tarifas_df[ti], grupos[gi])
        /\ coste_t.coste_potencia = PotenciaPorMultiplicador(tarifas_df[ti], 1)
        /\ coste_t.total = costes_mes[ti]

\* The second tariff of the second month has just been costed, with energy
\* and power both charged, after an annual ranking over two months of data.
C2_Witness ==
    /\ pc = "mes_tarifas" /\ ti = 2 /\ gi = 2
    /\ coste_t.coste_energia > 0 /\ coste_t.coste_potencia > 0
    /\ Len(ranking_anual) = 2
    /\ \E i \in DOMAIN ranking_anual :
          ranking_anual[i].coste_potencia_anual > 0 /\ ranking_anual[i].coste_energia_anual > 0

(***************************************************************************)
(* C3                                                                      *)
(***************************************************************************)
FilasAnuales == { ranking_anual[i] : i \in DOMAIN ranking_anual }
FilasMensuales == { mejor_mensual[i] : i \in DOMAIN mejor_mensual }

RankingOrdenado ==
    /\ \A i \in 1..(Len(ranking_anual) - 1) :
          ranking_anual[i].coste_total_anual <= ranking_anual[i + 1].coste_total_anual
    /\ ranking_anual # <<>> =>
          /\ \A r \in FilasAnuales : ranking_anual[1].coste_total_anual <= r.coste_total_anual
          /\ ranking_anual[1].ahorro_vs_peor_eur_anual >= 0

\* C3: for any catalog, the empty one included, calcular_costes_anuales_por_tarifa
\* returns a table with exactly one row per tariff of the catalog, non-decreasing
\* in coste_total_anual, whose first row has the least coste_total_anual and
\* ahorro_vs_peor_eur_anual >= 0.
C3_RankingUnaFilaPorTarifa ==
    /\ ~(pc = "error" /\ error.en = "calcular_costes_anuales_por_tarifa")
    /\ AnualDevuelto =>
        /\ Len(ranking_anual) = Len(tarifas_df)
        /\ { r.tarifa : r \in FilasAnuales } = { tarifas_df[i].tarifa : i \in DOMAIN tarifas_df }
        /\ RankingOrdenado

(***************************************************************************)
(* C4                                                                      *)
(***************************************************************************)
\* C4: in the annual ranking, tariffs of equal coste_total_anual keep the
\* relative order they have in the catalog.
C4_OrdenEstable ==
    AnualDevuelto =>
        \A i, j \in DOMAIN ranking_anual :
            (i < j /\ ranking_anual[i].coste_total_anual = ranking_anual[j].coste_total_anual)
                => ranking_anual[i].tarifa < ranking_anual[j].tarifa

(***************************************************************************)
(* C5                                                                      *)
(***************************************************************************)
CostesVentana(v) == [i \in DOMAIN tarifas_df |-> TotalVentana(tarifas_df[i], v)]

\* Row m names the first tariff, in catalog order, of least total cost in window v.
SeleccionCorrecta(m, v) ==
    LET costes == CostesVentana(v)
    IN  /\ m.tarifa \in DOMAIN tarifas_df
        /\ m.coste_total_mes = costes[m.tarifa]
        /\ \A j \in DOMAIN costes : m.coste_total_mes <= costes[j]
        /\ \A j \in DOMAIN costes : j < m.tarifa => costes[j] > m.coste_total_mes

\* C5: for each (year, month), once the loop over the catalog is over, the
\* selected tariff's coste_total_mes is the minimum of the total costs of all
\* the tariffs in that month, and among the tariffs that reach the minimum the
\* selected one is the first in catalog order.
C5_SeleccionMensual ==
    /\ (pc = "mes_tarifas" /\ ti = Len(tarifas_df) /\ ti > 0) =>
          SeleccionCorrecta(mejor[1], grupos[gi])
    /\ \A i \in DOMAIN resultados_mes :
          SeleccionCorrecta(resultados_mes[i], <<resultados_mes[i].anio, resultados_mes[i].mes>>)
    /\ \A r \in FilasMensuales : SeleccionCorrecta(r, <<r.anio, r.mes>>)

\* The loop over a catalog of two tariffs is over with both at the same,
\* non-zero, total cost, and the first one is the selected one.
C5_Witness ==
    /\ pc = "mes_tarifas" /\ ti = 2 /\ Len(tarifas_df) = 2
    /\ costes_mes[1] = costes_mes[2] /\ costes_mes[1] > 0
    /\ tarifas_df[1].punta_LV # tarifas_df[2].punta_LV
    /\ mejor[1].tarifa = 1

(***************************************************************************)
(* C6                                                                      *)
(***************************************************************************)
\* Median of a non-empty list: the middle value, or the mean of the two
\* middle values for an even count.
MedianaDe(c) ==
    LET n == Len(c)
        s == CHOOSE q \in Reordenaciones(c) : \A i \in 1..(n - 1) : q[i] <= q[i + 1]
    IN  IF n % 2 = 1 THEN R(s[(n + 1) \div 2]) ELSE Rat(s[n \div 2] + s[(n \div 2) + 1], 2)

MaximoDe(c) == CHOOSE x \in { c[i] : i \in DOMAIN c } : \A i \in DOMAIN c : c[i] <= x

\* 100 * ahorro / ref when ref # 0, else 0.
PorcentajeDe(ahorro, ref) ==
    IF ref.num # 0 THEN Rat(100 * ahorro.num * ref.den, ahorro.den * ref.num) ELSE R(0)

ReferenciasAnualesCorrectas(r) ==
    LET mediana == MedianaDe(CostesVentana(Anual))
        peor == MaximoDe(CostesVentana(Anual))
        total == r.coste_total_anual
    IN  /\ r.ref_mediana_coste_total_anual = mediana
        /\ r.ref_peor_coste_total_anual = peor
        /\ r.ahorro_vs_mediana_eur_anual = RSub(mediana, R(total))
        /\ r.ahorro_vs_peor_eur_anual = peor - total
        /\ r.ahorro_vs_mediana_pct_anual = PorcentajeDe(RSub(mediana, R(total)), mediana)
        /\ r.ahorro_vs_peor_pct_anual = PorcentajeDe(R(peor - total), R(peor))

ReferenciasMensualesCorrectas(r) ==
    LET mediana == MedianaDe(CostesVentana(<<r.anio, r.mes>>))
        peor == MaximoDe(CostesVentana(<<r.anio, r.mes>>))
        total == r.coste_total_mes
    IN  /\ r.ref_mediana_coste_total_mes = mediana
        /\ r.ref_peor_coste_total_mes = peor
        /\ r.ahorro_vs_mediana_eur_mes = RSub(mediana, R(total))
        /\ r.ahorro_vs_peor_eur_mes = peor - total
        /\ r.ahorro_vs_mediana_pct_mes = PorcentajeDe(RSub(mediana, R(total)), mediana)
        /\ r.ahorro_vs_peor_pct_mes = PorcentajeDe(R(peor - total), R(peor))

\* C6: the reference values of a row are the median (mean of the two middle
\* values for an even count) and the maximum of the total costs of all the
\* tariffs in the row's own window: the whole catalog over the year for an
\* annual row, that month's costs only for a monthly row.  The savings are
\* ref - total cost, and the percentage is 100 * savings / ref when ref # 0,
\* else 0.
C6_Referencias ==
    /\ \A r \in FilasAnuales : ReferenciasAnualesCorrectas(r)
    /\ \A i \in DOMAIN resultados_mes : ReferenciasMensualesCorrectas(resultados_mes[i])
    /\ \A r \in FilasMensuales : ReferenciasMensualesCorrectas(r)

\* Both tables are returned; the monthly one has two months whose costs
\* differ, the first with a median that is the mean of two different values.
C6_Witness ==
    /\ pc = "fin" /\ Len(mejor_mensual) = 2 /\ Len(ranking_anual) = 2
    /\ mejor_mensual[1].ref_mediana_coste_total_mes.den = 2
    /\ mejor_mensual[1].ref_peor_coste_total_mes # mejor_mensual[2].ref_peor_coste_total_mes
    /\ mejor_mensual[2].ref_peor_coste_total_mes > 0
    /\ mejor_mensual[1].ahorro_vs_peor_eur_mes > 0

(***************************************************************************)
(* C7                                                                      *)
(***************************************************************************)
\* The fields of monthly row r that the month's own records and the catalog
\* determine.
FilaDelMes(r) ==
    LET v == <<r.anio, r.mes>>
        t == tarifas_df[r.tarifa]
    IN  /\ r.comercializadora = t.comercializadora
        /\ r.kwh_mes = KwhTotalVentana(v)
        /\ r.kwh_punta_LV_mes = KwhVentana(v, "punta_LV")
        /\ r.kwh_llano_LV_mes = KwhVentana(v, "llano_LV")
        /\ r.kwh_valle_LV_mes = KwhVentana(v, "valle_LV")
        /\ r.kwh_valle_SD_mes = KwhVentana(v, "valle_SD")
        /\ r.coste_energia_mes = EnergiaVentana(t, v)
        /\ r.coste_potencia_mes = PotenciaPorMultiplicador(t, 1)
        /\ r.coste_total_mes = TotalVentana(t, v)
        /\ SeleccionCorrecta(r, v)

\* C7: the table returned by calcular_mejor_tarifa_por_mes has exactly one row
\* for each distinct (year, month) of the consumption timestamps and no other
\* row, in strictly ascending (year, month) order whatever the order of the
\* input records, and each row's content is determined by that month's
\* records and the catalog.
C7_UnaFilaPorMes ==
    MensualDevuelto =>
        /\ { <<r.anio, r.mes>> : r \in FilasMensuales } = Meses
        /\ Len(mejor_mensual) = Cardinality(Meses)
        /\ \A i \in 1..(Len(mejor_mensual) - 1) :
              ClaveMenor(<<mejor_mensual[i].anio, mejor_mensual[i].mes>>,
                         <<mejor_mensual[i + 1].anio, mejor_mensual[i + 1].mes>>)
        /\ \A r \in FilasMensuales : FilaDelMes(r)

\* The table is returned for records given out of order: January 2026
\* first, then January 2025, both with energy.
C7_Witness ==
    /\ pc = "fin" /\ Len(consumo_df) = 2
    /\ consumo_df[1].timestamp.anio = 2026 /\ consumo_df[2].timestamp.anio = 2025
    /\ consumo_df[2].timestamp.mes = 1 /\ consumo_df[2].kwh > 0
    /\ Len(mejor_mensual) = 2
    /\ mejor_mensual[1].anio = 2025 /\ mejor_mensual[2].anio = 2026

(***************************************************************************)
(* C8                                                                      *)
(***************************************************************************)
Cero == R(0)

\* C8: _safe_pct(x, 0) is 0 for any x; so every percentage field of both
\* tables (savings percentages, energy and power cost shares, per-period kWh
\* shares) is 0 when its denominator (reference cost, total cost, window kWh)
\* is 0, and coste_medio_eur_kwh is 0 when the window's total kWh is 0.
C8_CeroSeguro ==
    /\ \A x \in { R(-3), R(0), R(7), Rat(1, 2), Rat(-5, 2) } : _safe_pct(x, R(0)) = Cero
    /\ \A r \in FilasAnuales :
        /\ r.ref_mediana_coste_total_anual = Cero => r.ahorro_vs_mediana_pct_anual = Cero
        /\ r.ref_peor_coste_total_anual = 0 => r.ahorro_vs_peor_pct_anual = Cero
        /\ r.coste_total_anual = 0 =>
              r.pct_coste_energia_anual = Cero /\ r.pct_coste_potencia_anual = Cero
        /\ KwhTotalVentana(Anual) = 0 =>
              /\ r.pct_kwh_punta_LV = Cero /\ r.pct_kwh_llano_LV = Cero
              /\ r.pct_kwh_valle_LV = Cero /\ r.pct_kwh_valle_SD = Cero
              /\ r.coste_medio_eur_kwh = Cero
    /\ \A r \in FilasMensuales :
        /\ r.ref_mediana_coste_total_mes = Cero => r.ahorro_vs_mediana_pct_mes = Cero
        /\ r.ref_peor_coste_total_mes = 0 => r.ahorro_vs_peor_pct_mes = Cero
        /\ r.coste_total_mes = 0 =>
              r.pct_coste_energia_mes = Cero /\ r.pct_coste_potencia_mes = Cero
        /\ KwhTotalVentana(<<r.anio, r.mes>>) = 0 =>
              /\ r.pct_kwh_punta_LV_mes = Cero /\ r.pct_kwh_llano_LV_mes = Cero
              /\ r.pct_kwh_valle_LV_mes = Cero /\ r.pct_kwh_valle_SD_mes = Cero

\* Both tables are returned for a consumption without energy and a catalog
\* whose only tariff costs nothing: every denominator is 0.
C8_Witness ==
    /\ pc = "fin" /\ Len(ranking_anual) = 1 /\ Len(mejor_mensual) = 1
    /\ ranking_anual[1].kwh_anuales = 0 /\ ranking_anual[1].coste_total_anual = 0
    /\ ranking_anual[1].ref_peor_coste_total_anual = 0
    /\ mejor_mensual[1].kwh_mes = 0 /\ mejor_mensual[1].coste_total_mes = 0
    /\ mejor_mensual[1].ref_mediana_coste_total_mes = Cero

(***************************************************************************)
(* C9                                                                      *)
(***************************************************************************)
\* C9: every row of both tables carries energy cost, power cost, total cost
\* and average unit cost, with total = energy + power and average unit cost =
\* total / window kWh when the window kWh is > 0, else 0.
C9_DesgloseCompleto ==
    /\ \A r \in FilasAnuales :
        /\ {"coste_energia_anual", "coste_potencia_anual", "coste_total_anual",
            "coste_medio_eur_kwh"} \subseteq DOMAIN r
        /\ r.coste_total_anual = r.coste_energia_anual + r.coste_potencia_anual
        /\ r.coste_medio_eur_kwh =
              (IF KwhTotalVentana(Anual) > 0
               THEN Rat(r.coste_total_anual, KwhTotalVentana(Anual)) ELSE Cero)
    /\ \A r \in FilasMensuales :
        /\ {"coste_energia_mes", "coste_potencia_mes", "coste_total_mes",
            "coste_medio_eur_kwh"} \subseteq DOMAIN r
        /\ r.coste_total_mes = r.coste_energia_mes + r.coste_potencia_mes
        /\ r.coste_medio_eur_kwh =
              (IF KwhTotalVentana(<<r.anio, r.mes>>) > 0
               THEN Rat(r.coste_total_mes, KwhTotalVentana(<<r.anio, r.mes>>)) ELSE Cero)

(***************************************************************************)
(* C10                                                                     *)
(***************************************************************************)
\* C10: when every consumption record falls in one (year, month), the tariff
\* selected in the monthly table has, in the annual ranking, an energy cost
\* equal to its coste_energia_mes and a coste_potencia_anual equal to 12
\* times its coste_potencia_mes.
C10_ConsistenciaAnualMensual ==
    (pc = "fin" /\ Cardinality(Meses) = 1) =>
        /\ Len(mejor_mensual) = 1
        /\ \E a \in FilasAnuales : a.tarifa = mejor_mensual[1].tarifa
        /\ \A a \in FilasAnuales :
              a.tarifa = mejor_mensual[1].tarifa =>
                  /\ a.coste_energia_anual = mejor_mensual[1].coste_energia_mes
                  /\ a.coste_potencia_anual = 12 * mejor_mensual[1].coste_potencia_mes

\* Both tables are returned for two records of the same month; the selected
\* tariff, the second of the catalog, has energy and power costs above 0.
C10_Witness ==
    /\ pc = "fin" /\ Len(consumo_df) = 2 /\ Cardinality(Meses) = 1
    /\ Len(tarifas_df) = 2 /\ mejor_mensual[1].tarifa = 2
    /\ mejor_mensual[1].coste_energia_mes > 0 /\ mejor_mensual[1].coste_potencia_mes > 0

(***************************************************************************)
(* C11                                                                     *)
(***************************************************************************)
\* Sum of kwh over the consumption records of window v, record by record.
KwhRegistrosVentana(v) ==
    SumaConj([i \in DOMAIN consumo_df |-> consumo_df[i].kwh],
             { i \in DOMAIN consumo_df : EnVentana(consumo_df[i], v) })

\* Energy cost of tariff t for the per-period kWh written in monthly row r.
EnergiaSegunFila(r, t) ==
    r.kwh_punta_LV_mes * t.punta_LV + r.kwh_llano_LV_mes * t.llano_LV
    + r.kwh_valle_LV_mes * t.valle_LV + r.kwh_valle_SD_mes * t.valle_SD

\* C11: in every output row the four per-period kWh values add up to the
\* row's window total (kwh_anuales / kwh_mes), and that total is the sum of
\* kwh over all the consumption records of the window (the whole dataset for
\* the annual table, the records of the (year, month) for a monthly row); the
\* monthly distribution recomputed in the second pass is the one the month
\* was costed with.
C11_KwhSumanTotal ==
    /\ pc = "anual_tarifas" => kwh_anual.total_kwh = KwhRegistrosVentana(Anual)
    /\ \A r \in FilasAnuales :
        /\ r.kwh_punta_LV + r.kwh_llano_LV + r.kwh_valle_LV + r.kwh_valle_SD = r.kwh_anuales
        /\ r.kwh_anuales = KwhRegistrosVentana(Anual)
    /\ pc = "mes_tarifas" =>
        LET extra == Extra(df, grupos[gi][1], grupos[gi][2])
        IN  /\ kwh_mes.kwh_punta = extra.kwh_punta_LV_mes
            /\ kwh_mes.kwh_llano = extra.kwh_llano_LV_mes
            /\ kwh_mes.kwh_valle_lv = extra.kwh_valle_LV_mes
            /\ kwh_mes.kwh_valle_sd = extra.kwh_valle_SD_mes
            /\ kwh_mes.total_kwh = KwhRegistrosVentana(grupos[gi])
    /\ \A r \in FilasMensuales :
        /\ r.kwh_punta_LV_mes + r.kwh_llano_LV_mes + r.kwh_valle_LV_mes + r.kwh_valle_SD_mes
               = r.kwh_mes
        /\ r.kwh_mes = KwhRegistrosVentana(<<r.anio, r.mes>>)
        /\ r.coste_energia_mes = EnergiaSegunFila(r, tarifas_df[r.tarifa])

\* Both tables are returned for a weekday peak reading of January and a
\* weekend reading of February: the annual total is split between two
\* periods and each month has its own total.
C11_Witness ==
    /\ pc = "fin" /\ Len(ranking_anual) = 2 /\ Len(mejor_mensual) = 2
    /\ ranking_anual[1].kwh_anuales = 3
    /\ ranking_anual[1].kwh_punta_LV = 2 /\ ranking_anual[1].kwh_valle_SD = 1
    /\ mejor_mensual[1].kwh_mes = 2 /\ mejor_mensual[2].kwh_mes = 1
    /\ mejor_mensual[2].kwh_valle_SD_mes = 1
    /\ mejor_mensual[1].coste_energia_mes > 0

(***************************************************************************)
(* C12                                                                     *)
(***************************************************************************)
\* C12: all-or-nothing output.  In any run of main, if a fatal error occurs
\* at any step (ingestion, classification, annual ranking, monthly selection
\* or writing), no output table has been written; the run ends with either
\* both ranking_tarifas_anual.csv and ranking_tarifas_mensual.csv written or
\* neither.
C12_TodoONada ==
    /\ pc = "error" => DOMAIN out = {}
    /\ pc = "terminado" =>
          /\ DOMAIN out = {FICHERO_ANUAL, FICHERO_MENSUAL}
          /\ out[FICHERO_ANUAL].completo /\ out[FICHERO_MENSUAL].completo

(***************************************************************************)
(* C13                                                                     *)
(***************************************************************************)
\* Days from 2024-12-31 to date f.
Ordinal(f) == DiasAntesDeAnio(f.anio) + DiasAntesDeMes(f.anio, f.mes) + f.dia

Es2400(fila) == fila.hora \in { <<24, 0>>, <<24, 0, 0>> }

\* Days from 2024-12-31 to the day source row "fila" belongs to: the day
\* after its date for 24:00.
OrdinalFinal(fila) == Ordinal(fila.fecha) + (IF Es2400(fila) THEN 1 ELSE 0)

EsFecha(f) == f.mes \in 1..12 /\ f.dia \in 1..DiasDelMes(f.anio, f.mes)

\* Saturday or Sunday (2025-01-04 and 2025-01-05 are the first ones).
SabadoODomingo(f) == Ordinal(f) % 7 \in {4, 5}

\* Record reg is what source row "fila" becomes.
Corresponde(reg, fila) ==
    /\ reg.kwh = fila.kwh
    /\ EsFecha(reg.timestamp)
    /\ Ordinal(reg.timestamp) = OrdinalFinal(fila)
    /\ reg.timestamp.hora = (IF Es2400(fila) THEN 0 ELSE fila.hora[1])

\* Source row "fila" belongs to month <<anio, mes>>.
EnMesFinal(fila, anio, mes) ==
    \E d \in 1..DiasDelMes(anio, mes) :
        Ordinal([anio |-> anio, mes |-> mes, dia |-> d]) = OrdinalFinal(fila)

Leido == pc # "cargar" /\ error.en \notin {"read_consumo_datadis_csv", "read_comercializadoras_csv"}

\* C13: a source row with time 24:00 (or 24:00:00) on date D becomes a record
\* with timestamp 00:00 of D+1, and its weekend flag, its period and its
\* (year, month) group are those of D+1: the weekend flag of every record is
\* true exactly when the final timestamp is a Saturday or a Sunday, so 24:00
\* of a Friday is classified valle_SD and 24:00 of the last day of a month is
\* counted in the following month.
C13_Hora24DiaSiguiente ==
    Leido =>
        /\ \E p \in Permutations(DOMAIN consumo_csv.filas) :
              /\ DOMAIN consumo_df = DOMAIN consumo_csv.filas
              /\ \A i \in DOMAIN consumo_df : Corresponde(consumo_df[i], consumo_csv.filas[p[i]])
        /\ \A i \in DOMAIN consumo_df :
              consumo_df[i].es_fin_semana = SabadoODomingo(consumo_df[i].timestamp)
        /\ \A i \in DOMAIN df :
              /\ df[i].timestamp = consumo_df[i].timestamp
              /\ df[i].periodo = PeriodoSegunRegla(df[i].timestamp.hora,
                                                   SabadoODomingo(df[i].timestamp))
        /\ \A j \in DOMAIN consumo_csv.filas :
              LET fila == consumo_csv.filas[j]
              IN  (Es2400(fila) /\ Ordinal(fila.fecha) % 7 = 3 /\ df # <<>>) =>
                      \E i \in DOMAIN df :
                          /\ Corresponde(df[i], fila)
                          /\ df[i].periodo = "valle_SD"
        /\ \A r \in FilasMensuales :
              r.kwh_mes =
                  SumaConj([j \in DOMAIN consumo_csv.filas |-> consumo_csv.filas[j].kwh],
                           { j \in DOMAIN consumo_csv.filas :
                               EnMesFinal(consumo_csv.filas[j], r.anio, r.mes) })
        /\ mejor_mensual # <<>> =>
              \A j \in DOMAIN consumo_csv.filas :
                  \E r \in FilasMensuales : EnMesFinal(consumo_csv.filas[j], r.anio, r.mes)

\* The run has ended with both files written for a file of two rows of
\* Friday 31 January 2025, 24:00 first and 12:00 second: the 24:00 row is
\* the second record, a weekend one at 00:00 of 1 February, and it is the
\* consumption of the February row, all of it valle_SD.
C13_Witness ==
    /\ pc = "terminado"
    /\ Len(consumo_csv.filas) = 2
    /\ consumo_csv.filas[1].hora = <<24, 0>> /\ consumo_csv.filas[1].fecha = Viernes31EneCSV
    /\ consumo_csv.filas[2].hora = <<12, 0>>
    /\ consumo_df[2].timestamp = [anio |-> 2025, mes |-> 2, dia |-> 1, hora |-> 0]
    /\ consumo_df[2].es_fin_semana
    /\ Len(mejor_mensual) = 2
    /\ mejor_mensual[1].mes = 1 /\ mejor_mensual[1].kwh_mes = 2
    /\ mejor_mensual[2].mes = 2 /\ mejor_mensual[2].kwh_mes = 1
    /\ mejor_mensual[2].kwh_valle_SD_mes = 1

(***************************************************************************)
(* C14                                                                     *)
(***************************************************************************)
RECURSIVE SumaCosteTotalMes(_)
SumaCosteTotalMes(tabla) ==
    IF tabla = <<>> THEN 0 ELSE Head(tabla).coste_total_mes + SumaCosteTotalMes(Tail(tabla))

CargosNoNegativos ==
    /\ potencia_kw_valle >= 0 /\ potencia_kw_punta_llano >= 0
    /\ \A i \in DOMAIN tarifas_df :
          tarifas_df[i].potencia_mes_valle >= 0 /\ tarifas_df[i].potencia_mes_punta_llano >= 0

\* C14: for a non-empty catalog with non-negative fixed charges and contracted
\* powers, and consumption in at most 12 distinct (year, month) groups, the
\* sum of coste_total_mes over all the rows of the monthly table is at most
\* the coste_total_anual of the first row of the annual ranking.
C14_MensualNoSuperaAnual ==
    (pc = "fin" /\ tarifas_df # <<>> /\ CargosNoNegativos /\ Cardinality(Meses) <= 12) =>
        SumaCosteTotalMes(mejor_mensual) <= ranking_anual[1].coste_total_anual

\* Both tables are returned for two months won by different tariffs, each
\* with a fixed charge: the monthly winners together cost less than the best
\* tariff of the year.
C14_Witness ==
    /\ pc = "fin" /\ Len(mejor_mensual) = 2 /\ Len(tarifas_df) = 2
    /\ mejor_mensual[1].tarifa # mejor_mensual[2].tarifa
    /\ mejor_mensual[1].coste_potencia_mes > 0 /\ mejor_mensual[2].coste_potencia_mes > 0
    /\ mejor_mensual[1].coste_energia_mes > 0
    /\ 0 < SumaCosteTotalMes(mejor_mensual)
    /\ SumaCosteTotalMes(mejor_mensual) < ranking_anual[1].coste_total_anual

====
